---- MODULE Spec2Model ----
(***************************************************************************)
(* A model of the text editor of src/src/main.rs: the App event handler    *)
(* (modifier tracking, key translation, the backend guard, the redraw      *)
(* request) and the asynchronous backend initialisation task; and of the   *)
(* selection-aware line renderer of the hand-rolled editor variant, which  *)
(* spec.md section 4.2 describes.                                          *)
(*                                                                         *)
(* Option<T> is modelled as a sequence of length 0 (None) or 1 (Some).     *)
(***************************************************************************)
EXTENDS Integers, Naturals, Sequences, FiniteSets, TLC

VARIABLES
    window,        \* App.window : Option<Window>
    backend,       \* App.backend : Option<Terminal>, the terminal as [size, frame]
    borrowed,      \* whether the suspended future holds backend.borrow_mut()
    ed,            \* App.ed : the TextArea, as the number of Inputs applied to it
    ctrl_down,     \* App.ctrl_down
    alt_down,      \* App.alt_down
    shift_down,    \* App.shift_down
    task,          \* position of the future spawned by resumed
    redraw,        \* whether the window has a redraw request pending
    panicked,      \* whether a panic (unwrap / expect) has ended the session
    ev,            \* history: the event of the latest window_event call
    handled,       \* history: whether that call passed the backend guard
    emitted,       \* history: the Inputs that call passed to ed.input
    lastEv,        \* history: per modifier, the state of its latest event
    lastHandled,   \* history: the same, over the calls that passed the guard
    content,       \* renderer input: TextContent, a sequence of lines of clusters
    selection,     \* renderer input: SelectionRange <<start, end>>
    styled         \* renderer output: Option of the sequence of StyledLines

vars == <<window, backend, borrowed, ed, ctrl_down, alt_down, shift_down, task,
          redraw, panicked, ev, handled, emitted, lastEv, lastHandled,
          content, selection, styled>>

renderVars == <<content, selection, styled>>

appVars == <<window, backend, borrowed, ed, ctrl_down, alt_down, shift_down, task,
             redraw, panicked>>

(***************************************************************************)
(* Bounds and program constants.                                           *)
(***************************************************************************)
\* The number of Inputs the model lets the TextArea receive.
MaxInputs == 2

\* The highest function key of the named-key table (NamedKey::F35).
MaxF == 35

(***************************************************************************)
(* Keys and events.                                                        *)
(***************************************************************************)
NoText == <<>>

MkKey(kind, name, n, text) == [kind |-> kind, name |-> name, n |-> n, text |-> text]

Named(name) == MkKey("Named", name, 0, NoText)

FKey(n) == MkKey("Named", "F", n, NoText)

Character(text) == MkKey("Character", "", 0, text)

ModifierNames == {"Control", "Alt", "Shift"}

\* The named keys other than F1..F35 that the match arm maps to a Key.
MappedNames ==
    {"Backspace", "Enter", "Escape", "Tab", "ArrowDown", "ArrowLeft",
     "ArrowRight", "ArrowUp", "End", "Home", "PageDown", "PageUp", "Copy",
     "Cut", "Delete", "Paste", "Space"}

\* Named keys of winit that fall to the `_ => return` arm.
UnmappedNames == {"MediaPlayPause"}

\* Strings a Key::Character may report, as sequences of scalar values.
Texts == {<<>>, <<"x">>, <<"y", "x">>}

ModifierKeys == {Named(m) : m \in ModifierNames}

SupportedNamedKeys == {Named(m) : m \in MappedNames} \cup {FKey(n) : n \in 1..MaxF}

UnmappedNamedKeys == {Named(m) : m \in UnmappedNames}

CharacterKeys == {Character(t) : t \in Texts}

\* Key::Unidentified and Key::Dead: neither named nor a character.
OtherKeys == {MkKey("Unidentified", "", 0, NoText), MkKey("Dead", "", 0, NoText)}

UnrecognisedKeys == UnmappedNamedKeys \cup OtherKeys

\* One key or more of every arm class of the match: the modifier arms, arms
\* yielding a unit Key, the Char arm, the first and the last F arm, the default
\* arm, Key::Character and the remaining kinds of Key.
SampleNamedKeys ==
    {Named("Backspace"), Named("ArrowLeft"), Named("Space"), FKey(1), FKey(MaxF)}

LogicalKeys ==
    ModifierKeys \cup SampleNamedKeys \cup UnmappedNamedKeys
        \cup CharacterKeys \cup OtherKeys

ElementStates == {"Pressed", "Released"}

Sizes == {"small", "large"}

NoKey == MkKey("None", "", 0, NoText)

MkEvent(type, key, state, size) ==
    [type |-> type, key |-> key, state |-> state, size |-> size]

KeyboardEvents ==
    {MkEvent("KeyboardInput", k, s, "small") : k \in LogicalKeys, s \in ElementStates}

ResizedEvents == {MkEvent("Resized", NoKey, "Released", z) : z \in Sizes}

RedrawRequested == MkEvent("RedrawRequested", NoKey, "Released", "small")

\* Any other WindowEvent (focus, cursor, ...): the `_ => {}` arm.
OtherEvent == MkEvent("Focused", NoKey, "Released", "small")

NoEvent == MkEvent("None", NoKey, "Released", "small")

WindowEvents == KeyboardEvents \cup ResizedEvents \cup {RedrawRequested, OtherEvent}

\* Every named key of the table, pressed or released.
NamedKeyEvents ==
    {MkEvent("KeyboardInput", k, s, "small") : k \in SupportedNamedKeys, s \in ElementStates}

(***************************************************************************)
(* tui_textarea::Key and Input.                                            *)
(***************************************************************************)
TuiKey(k, c, n) == [k |-> k, c |-> c, n |-> n]

KeyChar(c) == TuiKey("Char", c, 0)

KeyF(n) == TuiKey("F", "", n)

KeyOf(k) == TuiKey(k, "", 0)

\* char::default(), the value of unwrap_or_default() on an empty string.
NUL == "U+0000"

MkInput(key, ctrl, alt, shift) ==
    [key |-> key, ctrl |-> ctrl, alt |-> alt, shift |-> shift]

(***************************************************************************)
(* The key translation of window_event.                                    *)
(***************************************************************************)
NoTuiKey == TuiKey("None", "", 0)

\* The match arm yields a Key.
Yield(key) == [act |-> "key", key |-> key]

\* The match arm sets a modifier flag and returns.
SetFlag(flag) == [act |-> flag, key |-> NoTuiKey]

\* The match arm returns.
Return == [act |-> "return", key |-> NoTuiKey]

\* match named_key { ... }
NamedKeyMatch(name, n) ==
    CASE name = "Backspace"  -> Yield(KeyOf("Backspace"))
      [] name = "Enter"      -> Yield(KeyOf("Enter"))
      [] name = "Escape"     -> Yield(KeyOf("Esc"))
      [] name = "Tab"        -> Yield(KeyOf("Tab"))
      [] name = "ArrowDown"  -> Yield(KeyOf("Down"))
      [] name = "ArrowLeft"  -> Yield(KeyOf("Left"))
      [] name = "ArrowRight" -> Yield(KeyOf("Right"))
      [] name = "ArrowUp"    -> Yield(KeyOf("Up"))
      [] name = "Control"    -> SetFlag("ctrl")
      [] name = "Alt"        -> SetFlag("alt")
      [] name = "Shift"      -> SetFlag("shift")
      [] name = "End"        -> Yield(KeyOf("End"))
      [] name = "Home"       -> Yield(KeyOf("Home"))
      [] name = "PageDown"   -> Yield(KeyOf("PageDown"))
      [] name = "PageUp"     -> Yield(KeyOf("PageUp"))
      [] name = "Copy"       -> Yield(KeyOf("Copy"))
      [] name = "Cut"        -> Yield(KeyOf("Cut"))
      [] name = "Delete"     -> Yield(KeyOf("Delete"))
      [] name = "Paste"      -> Yield(KeyOf("Paste"))
      [] name = "Space"      -> Yield(KeyChar(" "))
      [] name = "F" /\ n \in 1..MaxF -> Yield(KeyF(n))
      [] OTHER               -> Return

\* A slip: the last scalar value instead of the first.
LastChar(text) == IF text = <<>> THEN NUL ELSE text[Len(text)]

\* c.chars().next().unwrap_or_default()
FirstChar(text) == IF text = <<>> THEN NUL ELSE Head(text)

\* A slip: the Alt arm stores into ctrl_down.
TranslateKeyAltSetsCtrl(k) ==
    IF k = Named("Alt") THEN SetFlag("ctrl")
    ELSE IF k.kind = "Named" THEN NamedKeyMatch(k.name, k.n)
    ELSE IF k.kind = "Character" THEN Yield(KeyChar(FirstChar(k.text)))
    ELSE Return

\* A slip: the default arms yield Key::Null instead of returning.
TranslateKeyDefaultNull(k) ==
    LET t == IF k.kind = "Named" THEN NamedKeyMatch(k.name, k.n)
             ELSE IF k.kind = "Character" THEN Yield(KeyChar(FirstChar(k.text)))
             ELSE Return
    IN  IF t = Return THEN Yield(KeyOf("Null")) ELSE t

\* A slip: ArrowLeft and ArrowRight exchanged.
TranslateKeyArrowsSwapped(k) ==
    IF k = Named("ArrowLeft") THEN Yield(KeyOf("Right"))
    ELSE IF k = Named("ArrowRight") THEN Yield(KeyOf("Left"))
    ELSE IF k.kind = "Named" THEN NamedKeyMatch(k.name, k.n)
    ELSE IF k.kind = "Character" THEN Yield(KeyChar(FirstChar(k.text)))
    ELSE Return

\* let key = match event.logical_key { ... }
TranslateKey(k) ==
    IF k.kind = "Named" THEN NamedKeyMatch(k.name, k.n)
    ELSE IF k.kind = "Character" THEN Yield(KeyChar(FirstChar(k.text)))
    ELSE Return

\* A slip: the flag is set on a release too.
ModifierHeldAlways(state) == TRUE

\* event.state == ElementState::Pressed, the value stored in a modifier flag
ModifierHeld(state) == state = "Pressed"

\* A slip: the command is passed on a release too.
ShouldInputAlways(state) == TRUE

\* if event.state == ElementState::Pressed { self.ed.input(..) }
ShouldInput(state) == state = "Pressed"

\* A slip: ctrl and alt exchanged in the Input.
SnapshotSwapped(key, ctrl, alt, shift) == MkInput(key, alt, ctrl, shift)

\* Input { key, ctrl: self.ctrl_down, alt: self.alt_down, shift: self.shift_down }
Snapshot(key, ctrl, alt, shift) == MkInput(key, ctrl, alt, shift)

\* let Some(terminal) = terminal.as_mut() else { return; }
GuardPasses(b) == b # <<>>

(***************************************************************************)
(* The state after main has built the App and before resumed.              *)
(***************************************************************************)
NoHistory == [m \in ModifierNames |-> "None"]

AppInit ==
    /\ window = <<>>
    /\ backend = <<>>
    /\ borrowed = FALSE
    /\ ed = [inputs |-> 0]
    /\ ctrl_down = FALSE
    /\ alt_down = FALSE
    /\ shift_down = FALSE
    /\ task = "unspawned"
    /\ redraw = FALSE
    /\ panicked = FALSE
    /\ ev = NoEvent
    /\ handled = FALSE
    /\ emitted = <<>>
    /\ lastEv = NoHistory
    /\ lastHandled = NoHistory

\* The editor of main.rs draws through the TextArea widget: the line renderer
\* is idle.
Init ==
    /\ AppInit
    /\ content = <<>>
    /\ selection = <<0, 0>>
    /\ styled = <<>>

(***************************************************************************)
(* resumed and the future it spawns.                                       *)
(***************************************************************************)
history == <<ev, handled, emitted, lastEv, lastHandled, renderVars>>

flags == <<ctrl_down, alt_down, shift_down>>

\* resumed: create the window, spawn the initialisation future.
Resumed ==
    /\ ~panicked
    /\ task = "unspawned"
    /\ window' = <<"Window">>
    /\ task' = "spawned"
    /\ UNCHANGED <<backend, borrowed, ed, flags, redraw, panicked, history>>

\* A slip: the assignee is evaluated before the awaited value, so that the
\* future is suspended holding backend.borrow_mut().
TaskAttachBorrowing ==
    /\ ~panicked
    /\ task = "spawned"
    /\ window # <<>>
    /\ task' = "awaiting"
    /\ borrowed' = TRUE
    /\ UNCHANGED <<window, backend, ed, flags, redraw, panicked, history>>

\* The future up to its await: the canvas is attached and measured. The
\* assigned value (with its await) is evaluated before the assignee
\* backend.borrow_mut(), so no borrow is held while the future is suspended.
TaskAttach ==
    /\ ~panicked
    /\ task = "spawned"
    /\ window # <<>>
    /\ task' = "awaiting"
    /\ borrowed' = FALSE
    /\ UNCHANGED <<window, backend, ed, flags, redraw, panicked, history>>

\* .expect("Failed to attach canvas"): no element, no canvas, or a zero bound.
TaskAttachFail ==
    /\ ~panicked
    /\ task = "spawned"
    /\ task' = "panicked"
    /\ panicked' = TRUE
    /\ UNCHANGED <<window, backend, borrowed, ed, flags, redraw, history>>

\* The await completes: *backend.borrow_mut() = Some(Terminal::new(..)).
TaskInstall ==
    /\ ~panicked
    /\ task = "awaiting"
    /\ \E z \in Sizes : backend' = <<[size |-> z, frame |-> <<>>]>>
    /\ borrowed' = FALSE
    /\ task' = "done"
    /\ UNCHANGED <<window, ed, flags, redraw, panicked, history>>

\* build_with_target(..).await.unwrap() or Terminal::new(..).unwrap() fails.
TaskBuildFail ==
    /\ ~panicked
    /\ task = "awaiting"
    /\ task' = "panicked"
    /\ panicked' = TRUE
    /\ UNCHANGED <<window, backend, borrowed, ed, flags, redraw, history>>

(***************************************************************************)
(* window_event.                                                           *)
(***************************************************************************)
\* self.ed.input(input)
EdInput(input) ==
    /\ ed.inputs < MaxInputs
    /\ ed' = [inputs |-> ed.inputs + 1]
    /\ emitted' = <<input>>

\* A slip: the request is left out.
RequestRedrawMissing == UNCHANGED <<redraw, panicked>>

\* self.window.borrow().as_ref().unwrap().request_redraw()
RequestRedraw ==
    IF window = <<>>
    THEN panicked' = TRUE /\ UNCHANGED redraw
    ELSE redraw' = TRUE /\ UNCHANGED panicked

\* The arm of KeyboardInput once the key match has given t.
KeyboardInputArm(e, t) ==
    CASE t.act = "ctrl" ->
            /\ ctrl_down' = ModifierHeld(e.state)
            /\ emitted' = <<>>
            /\ UNCHANGED <<alt_down, shift_down, ed, backend, redraw, panicked>>
      [] t.act = "alt" ->
            /\ alt_down' = ModifierHeld(e.state)
            /\ emitted' = <<>>
            /\ UNCHANGED <<ctrl_down, shift_down, ed, backend, redraw, panicked>>
      [] t.act = "shift" ->
            /\ shift_down' = ModifierHeld(e.state)
            /\ emitted' = <<>>
            /\ UNCHANGED <<ctrl_down, alt_down, ed, backend, redraw, panicked>>
      [] t.act = "return" ->
            /\ emitted' = <<>>
            /\ UNCHANGED <<flags, ed, backend, redraw, panicked>>
      [] t.act = "key" ->
            /\ IF ShouldInput(e.state)
               THEN EdInput(Snapshot(t.key, ctrl_down, alt_down, shift_down))
               ELSE emitted' = <<>> /\ UNCHANGED ed
            /\ RequestRedraw
            /\ UNCHANGED <<flags, backend>>

\* A slip: the Control arm lacks its return and falls through to the input.
KeyboardInputNoReturn(e) ==
    IF e.key = Named("Control")
    THEN /\ ctrl_down' = ModifierHeld(e.state)
         /\ EdInput(Snapshot(KeyOf("Null"), ctrl_down, alt_down, shift_down))
         /\ RequestRedraw
         /\ UNCHANGED <<alt_down, shift_down, backend>>
    ELSE KeyboardInputArm(e, TranslateKey(e.key))

\* WindowEvent::KeyboardInput { event, .. }
KeyboardInput(e) == KeyboardInputArm(e, TranslateKey(e.key))

\* WindowEvent::Resized(size)
Resized(e) ==
    /\ backend' = <<[backend[1] EXCEPT !.size = e.size]>>
    /\ emitted' = <<>>
    /\ RequestRedraw
    /\ UNCHANGED <<flags, ed>>

\* A slip: drawing resets the held modifiers.
RedrawClearingFlags ==
    /\ backend' = <<[backend[1] EXCEPT !.frame = <<ed.inputs>>]>>
    /\ emitted' = <<>>
    /\ RequestRedraw
    /\ ctrl_down' = FALSE /\ alt_down' = FALSE /\ shift_down' = FALSE
    /\ UNCHANGED ed

\* A slip: the arm returns after drawing, before the redraw request.
RedrawReturning ==
    /\ backend' = <<[backend[1] EXCEPT !.frame = <<ed.inputs>>]>>
    /\ emitted' = <<>>
    /\ redraw' = FALSE
    /\ UNCHANGED <<flags, ed, panicked>>

\* WindowEvent::RedrawRequested: the host has cleared the pending request;
\* terminal.draw reads self.ed and paints it as the frame.
Redraw ==
    /\ backend' = <<[backend[1] EXCEPT !.frame = <<ed.inputs>>]>>
    /\ emitted' = <<>>
    /\ RequestRedraw
    /\ UNCHANGED <<flags, ed>>

\* Any other event: `_ => {}`.
Ignored ==
    /\ emitted' = <<>>
    /\ RequestRedraw
    /\ UNCHANGED <<flags, ed, backend>>

\* self.backend.borrow_mut() while the future holds the borrow: a panic.
BorrowPanic ==
    /\ panicked' = TRUE
    /\ emitted' = <<>>
    /\ UNCHANGED <<flags, ed, backend, redraw>>

\* A slip: the modifier arms run before the guard.
DroppedAfterModifiers(e) ==
    /\ emitted' = <<>>
    /\ redraw' = IF e.type = "RedrawRequested" THEN FALSE ELSE redraw
    /\ ctrl_down' = IF e.type = "KeyboardInput" /\ e.key = Named("Control")
                    THEN ModifierHeld(e.state) ELSE ctrl_down
    /\ alt_down' = IF e.type = "KeyboardInput" /\ e.key = Named("Alt")
                   THEN ModifierHeld(e.state) ELSE alt_down
    /\ shift_down' = IF e.type = "KeyboardInput" /\ e.key = Named("Shift")
                     THEN ModifierHeld(e.state) ELSE shift_down
    /\ UNCHANGED <<ed, backend, panicked>>

\* The early return while the backend is None.
Dropped(e) ==
    /\ emitted' = <<>>
    /\ redraw' = IF e.type = "RedrawRequested" THEN FALSE ELSE redraw
    /\ UNCHANGED <<flags, ed, backend, panicked>>

IsModifierEvent(e) == e.type = "KeyboardInput" /\ e.key \in ModifierKeys

\* The history of the modifier events seen so far, after event e.
Record(h, e) ==
    IF IsModifierEvent(e) THEN [h EXCEPT ![e.key.name] = e.state] ELSE h

\* One call of window_event with event e.
WindowEvent(e) ==
    /\ ~panicked
    /\ window # <<>>
    /\ ev' = e
    /\ handled' = (backend # <<>>)
    /\ lastEv' = Record(lastEv, e)
    /\ lastHandled' = IF backend # <<>> THEN Record(lastHandled, e) ELSE lastHandled
    /\ UNCHANGED <<window, task, borrowed, renderVars>>
    /\ IF borrowed
       THEN BorrowPanic
       ELSE IF ~GuardPasses(backend)
       THEN Dropped(e)
       ELSE CASE e.type = "Resized" -> Resized(e)
              [] e.type = "KeyboardInput" -> KeyboardInput(e)
              [] e.type = "RedrawRequested" -> Redraw
              [] OTHER -> Ignored

Deliver == \E e \in WindowEvents : WindowEvent(e)

Next ==
    \/ Resumed
    \/ TaskAttach
    \/ TaskAttachFail
    \/ TaskInstall
    \/ TaskBuildFail
    \/ Deliver

Spec == Init /\ [][Next]_vars

(***************************************************************************)
(* The same program with the key presses and releases drawn from the whole *)
(* named-key table, and an initialisation that succeeds.                   *)
(***************************************************************************)
DeliverNamed == \E e \in NamedKeyEvents : WindowEvent(e)

KeyNext ==
    \/ Resumed
    \/ TaskAttach
    \/ TaskInstall
    \/ DeliverNamed

KeySpec == Init /\ [][KeyNext]_vars

(***************************************************************************)
(* Properties of the input translation.                                    *)
(***************************************************************************)
flagOf == [Control |-> ctrl_down, Alt |-> alt_down, Shift |-> shift_down]

IsKeyEvent(e) == e.type = "KeyboardInput"

IsPress(e) == IsKeyEvent(e) /\ e.state = "Pressed"

IsRelease(e) == IsKeyEvent(e) /\ e.state = "Released"

XPress == MkEvent("KeyboardInput", Character(<<"x">>), "Pressed", "small")

\* C1, as stated: after any sequence of events each modifier flag is true
\* exactly when the latest event delivered for that modifier was a press.
C1Orig == \A m \in ModifierNames : flagOf[m] <=> (lastEv[m] = "Pressed")

\* C1, amended: each modifier flag is true exactly when the latest event for
\* that modifier delivered while the backend was installed was a press, and
\* false if there was none, whatever the order of the other modifiers' events.
C1Thm == \A m \in ModifierNames : flagOf[m] <=> (lastHandled[m] = "Pressed")

\* Ctrl and Shift are held and Alt has just been released.
C1Wit ==
    /\ handled
    /\ ev = MkEvent("KeyboardInput", Named("Alt"), "Released", "small")
    /\ ctrl_down /\ shift_down /\ ~alt_down
    /\ lastHandled = [Control |-> "Pressed", Alt |-> "Released", Shift |-> "Pressed"]

\* C2: the release of a key other than Ctrl, Alt and Shift passes no command
\* to the buffer and leaves the buffer as it was.
C2Thm ==
    [][(IsRelease(ev') /\ ev'.key \notin ModifierKeys /\ WindowEvent(ev'))
          => (ed' = ed /\ emitted' = <<>>)]_vars

\* The release of 'x' was handled with the backend installed and a buffer
\* that had received input.
C2Wit ==
    /\ handled
    /\ ev = MkEvent("KeyboardInput", Character(<<"x">>), "Released", "small")
    /\ ed.inputs > 0
    /\ emitted = <<>>

\* C3, as stated: a command carries flags equal to "the latest event for that
\* modifier was a press", and after Ctrl-press, Ctrl-release an 'x'-press
\* emits exactly one InsertChar('x') with ctrl false.
C3Orig ==
    /\ emitted # <<>> =>
          \A m \in ModifierNames :
              [Control |-> emitted[1].ctrl, Alt |-> emitted[1].alt,
               Shift |-> emitted[1].shift][m] <=> (lastEv[m] = "Pressed")
    /\ (ev = XPress /\ lastEv["Control"] = "Released") =>
          /\ Len(emitted) = 1
          /\ emitted[1].key = KeyChar("x")
          /\ ~emitted[1].ctrl

\* C3, amended: a command carries the flags as they are at its press, each
\* true exactly when the latest event for that modifier handled with the
\* backend installed was a press; with the backend installed, an 'x'-press
\* that follows a Ctrl-release emits exactly one InsertChar('x'), ctrl false.
C3Thm ==
    /\ emitted # <<>> =>
          /\ emitted[1].ctrl = ctrl_down
          /\ emitted[1].alt = alt_down
          /\ emitted[1].shift = shift_down
          /\ \A m \in ModifierNames :
                [Control |-> emitted[1].ctrl, Alt |-> emitted[1].alt,
                 Shift |-> emitted[1].shift][m] <=> (lastHandled[m] = "Pressed")
    /\ (ev = XPress /\ handled /\ lastHandled["Control"] = "Released") =>
          /\ Len(emitted) = 1
          /\ emitted[1].key = KeyChar("x")
          /\ ~emitted[1].ctrl

\* 'x' was pressed after a Ctrl-release, with Shift held.
C3Wit ==
    /\ ev = XPress /\ handled
    /\ lastHandled["Control"] = "Released"
    /\ lastHandled["Shift"] = "Pressed"
    /\ emitted # <<>>

\* What a modifier event does to the flags, the buffer and the commands.
ModifierEffect ==
    /\ flagOf' = [flagOf EXCEPT ![ev'.key.name] = (ev'.state = "Pressed")]
    /\ ed' = ed
    /\ emitted' = <<>>

\* C4, as stated: every Ctrl, Alt or Shift event sets its own flag to
\* (transition = press), leaves the other two flags and the buffer alone and
\* emits no command.
C4Orig ==
    [][(IsModifierEvent(ev') /\ WindowEvent(ev')) => ModifierEffect]_vars

\* C4, amended: the same, for the events delivered while the backend is
\* installed.
C4Thm ==
    [][(IsModifierEvent(ev') /\ handled' /\ WindowEvent(ev')) => ModifierEffect]_vars

\* Alt was released with Ctrl held and a buffer that had received input.
C4Wit ==
    /\ handled
    /\ ev = MkEvent("KeyboardInput", Named("Alt"), "Released", "small")
    /\ ctrl_down /\ ~alt_down /\ ~shift_down
    /\ ed.inputs > 0

\* C5: an unrecognised key, pressed or released, emits no command, leaves the
\* three flags and the buffer as they were and does not panic.
C5Thm ==
    [][(IsKeyEvent(ev') /\ ev'.key \in UnrecognisedKeys /\ WindowEvent(ev'))
          => (emitted' = <<>> /\ ed' = ed /\ flagOf' = flagOf /\ ~panicked')]_vars

\* An unmapped named key was pressed with Ctrl held and the backend installed.
C5Wit ==
    /\ handled
    /\ ev = MkEvent("KeyboardInput", Named("MediaPlayPause"), "Pressed", "small")
    /\ ctrl_down
    /\ ed.inputs > 0
    /\ ~panicked

\* C6: one event passes at most one command to the buffer, changes at most
\* one flag, and never does both.
C6Thm ==
    [][WindowEvent(ev') =>
          /\ Len(emitted') <= 1
          /\ ed'.inputs = ed.inputs + Len(emitted')
          /\ Cardinality({m \in ModifierNames : flagOf'[m] # flagOf[m]}) <= 1
          /\ ~(flagOf' # flagOf /\ emitted' # <<>>)]_vars

\* A command was emitted while Ctrl was held.
C6Wit == Len(emitted) = 1 /\ ctrl_down /\ handled /\ IsPress(ev)

\* The command variant the claim gives for each supported named key.
C7Expected(k) ==
    CASE k.name = "F"          -> KeyF(k.n)
      [] k.name = "Space"      -> KeyChar(" ")
      [] k.name = "Escape"     -> KeyOf("Esc")
      [] k.name = "ArrowUp"    -> KeyOf("Up")
      [] k.name = "ArrowDown"  -> KeyOf("Down")
      [] k.name = "ArrowLeft"  -> KeyOf("Left")
      [] k.name = "ArrowRight" -> KeyOf("Right")
      [] OTHER                 -> KeyOf(k.name)

\* The press emitted exactly the command of its key, which no other named
\* key yields.
C7Mapped ==
    /\ Len(emitted) = 1
    /\ emitted[1].key = C7Expected(ev.key)
    /\ \A k \in SupportedNamedKeys \ {ev.key} : TranslateKey(k) # Yield(emitted[1].key)

\* C7, as stated: every press of a supported named key emits exactly one
\* command of the corresponding variant, different keys different commands.
C7Orig == (IsPress(ev) /\ ev.key \in SupportedNamedKeys) => C7Mapped

\* C7, amended: the same, for the presses delivered while the backend is
\* installed.
C7Thm == (IsPress(ev) /\ ev.key \in SupportedNamedKeys /\ handled) => C7Mapped

\* F35 was pressed and F(35) emitted.
C7Wit ==
    /\ handled
    /\ ev = MkEvent("KeyboardInput", FKey(MaxF), "Pressed", "small")
    /\ emitted = <<MkInput(KeyF(MaxF), FALSE, FALSE, FALSE)>>

\* C8, as stated: every press of a character key emits exactly one InsertChar
\* of the first scalar value of its string, with the current flags.
C8Orig ==
    (IsPress(ev) /\ ev.key.kind = "Character" /\ ev.key.text # <<>>) =>
        emitted = <<MkInput(KeyChar(ev.key.text[1]), ctrl_down, alt_down, shift_down)>>

\* C8, amended: with the backend installed, a press of a character key emits
\* exactly one InsertChar of the first scalar value of its string (U+0000 for
\* an empty string), with the current flags.
C8Thm ==
    (IsPress(ev) /\ ev.key.kind = "Character" /\ handled) =>
        emitted = <<MkInput(
                      KeyChar(IF ev.key.text = <<>> THEN NUL ELSE ev.key.text[1]),
                      ctrl_down, alt_down, shift_down)>>

\* A two-scalar string was pressed with Alt held: its first scalar is inserted.
C8Wit ==
    /\ handled
    /\ ev = MkEvent("KeyboardInput", Character(<<"y", "x">>), "Pressed", "small")
    /\ alt_down
    /\ emitted = <<MkInput(KeyChar("y"), FALSE, TRUE, FALSE)>>

(***************************************************************************)
(* The selection-aware line renderer (spec.md, section 4.2).               *)
(* A grapheme cluster is [g, w]: its text and its display width in cells.  *)
(* A StyledRun is [text, reversed], text a sequence of clusters.           *)
(***************************************************************************)
\* The most lines of a text, and the most clusters of a text, in the model.
MaxLines == 2

MaxClusters == 3

Cluster(g, w) == [g |-> g, w |-> w]

\* The synthetic trailing cell: a single space.
Space == Cluster(" ", 1)

\* A narrow letter, a two-cell emoji and a zero-width combining mark.
Alphabet == {Cluster("a", 1), Cluster("<crab>", 2), Cluster("<acute>", 0)}

Letter(g) == Cluster(g, 1)

\* "ab\ncd"
TextAbCd == <<(<<Letter("a"), Letter("b")>>), (<<Letter("c"), Letter("d")>>)>>

\* "abc"
TextAbc == <<(<<Letter("a"), Letter("b"), Letter("c")>>)>>

LinesOver(A) == UNION {[1..n -> A] : n \in 0..MaxClusters}

\* The texts of n lines over A with at most `budget` clusters in all.
RECURSIVE TextsOf(_, _, _)
TextsOf(A, n, budget) ==
    IF n = 0 THEN {<<>>}
    ELSE UNION {{<<l>> \o t : t \in TextsOf(A, n - 1, budget - Len(l))} :
                   l \in {x \in LinesOver(A) : Len(x) <= budget}}

Contents ==
    UNION {TextsOf(Alphabet, n, MaxClusters) : n \in 1..MaxLines}
        \cup {TextAbCd, TextAbc}

Min(a, b) == IF a <= b THEN a ELSE b

Max(a, b) == IF a >= b THEN a ELSE b

\* A slip: the ends are taken in the order given.
NormalizeUnordered(sel) ==
    [lo |-> sel[1], hi |-> IF sel[1] = sel[2] THEN sel[1] + 1 ELSE sel[2]]

\* Step 1: lo = min, hi = max, and a caret (lo = hi) is widened to one cell.
Normalize(sel) ==
    LET lo == Min(sel[1], sel[2])
        hi == Max(sel[1], sel[2])
    IN  [lo |-> lo, hi |-> IF lo = hi THEN lo + 1 ELSE hi]

\* A slip: the upper end is taken as inclusive.
InsideInclusive(counter, lo, hi) == counter >= lo /\ counter <= hi

\* A slip: the lower end is not tested.
InsideBelowHi(counter, lo, hi) == counter < hi

\* Step 4: inside = counter >= lo && counter < hi.
Inside(counter, lo, hi) == counter >= lo /\ counter < hi

\* Step 4: the counter advances by the display width, with a floor of 1.
Advance(c) == Max(c.w, 1)

\* A slip: the accumulating run is emitted even when it is empty.
FlushAlways(runs, cur) == Append(runs, cur)

\* Steps 4 and 5: emit the accumulating run (nothing at the start of a line).
Flush(runs, cur) == IF cur.text = <<>> THEN runs ELSE Append(runs, cur)

\* Step 4, over the cells of a line from the i-th on.
RECURSIVE LineFrom(_, _, _, _, _, _, _)
LineFrom(cells, i, counter, lo, hi, runs, cur) ==
    IF i > Len(cells)
    THEN [runs |-> Flush(runs, cur), counter |-> counter]
    ELSE LET inside == Inside(counter, lo, hi)
             changed == cur.text = <<>> \/ inside # cur.reversed
             runs2 == IF changed THEN Flush(runs, cur) ELSE runs
             cur2 == IF changed
                     THEN [text |-> <<cells[i]>>, reversed |-> inside]
                     ELSE [cur EXCEPT !.text = Append(@, cells[i])]
         IN  LineFrom(cells, i + 1, counter + Advance(cells[i]), lo, hi, runs2, cur2)

\* A slip: the synthetic trailing cell is not appended.
RenderLineNoSpace(line, counter, lo, hi) ==
    LineFrom(line, 1, counter, lo, hi, <<>>, [text |-> <<>>, reversed |-> FALSE])

\* Steps 3 to 6 for one line: its StyledLine and the counter after it.
RenderLine(line, counter, lo, hi) ==
    LineFrom(line \o <<Space>>, 1, counter, lo, hi, <<>>,
             [text |-> <<>>, reversed |-> FALSE])

\* A slip: the counter starts again at 0 on every line.
RECURSIVE RenderFromReset(_, _, _, _, _)
RenderFromReset(text, i, counter, lo, hi) ==
    IF i > Len(text) THEN <<>>
    ELSE LET r == RenderLine(text[i], 0, lo, hi)
         IN  <<r.runs>> \o RenderFromReset(text, i + 1, r.counter, lo, hi)

\* Step 2: the lines in order, one counter running through all of them.
RECURSIVE RenderFrom(_, _, _, _, _)
RenderFrom(text, i, counter, lo, hi) ==
    IF i > Len(text) THEN <<>>
    ELSE LET r == RenderLine(text[i], counter, lo, hi)
         IN  <<r.runs>> \o RenderFrom(text, i + 1, r.counter, lo, hi)

\* The renderer: one StyledLine per line of the text.
RenderText(text, sel) ==
    LET n == Normalize(sel) IN RenderFrom(text, 1, 0, n.lo, n.hi)

\* The counter positions a line takes: its clusters and the synthetic cell.
RECURSIVE LineSpan(_)
LineSpan(line) == IF line = <<>> THEN 1 ELSE Advance(Head(line)) + LineSpan(Tail(line))

RECURSIVE TextSpan(_)
TextSpan(text) == IF text = <<>> THEN 0 ELSE LineSpan(Head(text)) + TextSpan(Tail(text))

\* Selections up to one position past the end of the text.
Offsets(text) == 0..(TextSpan(text) + 1)

RenderInit ==
    /\ AppInit
    /\ content \in Contents
    /\ \E s \in Offsets(content), e \in Offsets(content) : selection = <<s, e>>
    /\ styled = <<>>

\* A redraw: the renderer reads the text and the selection.
Render ==
    /\ styled = <<>>
    /\ styled' = <<RenderText(content, selection)>>
    /\ UNCHANGED <<appVars, ev, handled, emitted, lastEv, lastHandled, content, selection>>

\* A later redraw of the same text and selection: the StyledLines are rebuilt.
RenderAgain ==
    /\ styled # <<>>
    /\ styled' = <<RenderText(content, selection)>>
    /\ UNCHANGED <<appVars, ev, handled, emitted, lastEv, lastHandled, content, selection>>

RenderNext == Render \/ RenderAgain

RenderSpec == RenderInit /\ [][RenderNext]_vars

(***************************************************************************)
(* Properties of the renderer.                                             *)
(***************************************************************************)
\* The reversed flag of every cluster of a StyledLine, in order.
RECURSIVE RunFlags(_)
RunFlags(runs) ==
    IF runs = <<>> THEN <<>>
    ELSE [k \in 1..Len(Head(runs).text) |-> Head(runs).reversed] \o RunFlags(Tail(runs))

\* The display width of a sequence of clusters.
RECURSIVE CellWidth(_)
CellWidth(cs) == IF cs = <<>> THEN 0 ELSE Head(cs).w + CellWidth(Tail(cs))

\* The counter value at which cell j of line i is visited: every line before
\* it gives its clusters' advances and one synthetic cell, and so does every
\* cluster before it on its line.
CounterAt(text, i, j) ==
    TextSpan(SubSeq(text, 1, i - 1)) + LineSpan(SubSeq(text[i], 1, j - 1)) - 1

ReversedRuns(runs) == {r \in 1..Len(runs) : runs[r].reversed}

\* C9, as stated: a caret lo = hi = k within a line, 0 <= k <= the line's
\* length in cells, gives the line exactly one reversed run, one cell wide.
C9Orig ==
    (styled # <<>> /\ selection[1] = selection[2]) =>
        \A i \in 1..Len(content) :
            LET k == selection[1]
                start == CounterAt(content, i, 1)
            IN  (start <= k /\ k <= start + CellWidth(content[i])) =>
                    /\ Cardinality(ReversedRuns(styled[1][i])) = 1
                    /\ \A r \in ReversedRuns(styled[1][i]) :
                          CellWidth(styled[1][i][r].text) = 1

\* C10: one counter runs through the whole text, each line giving its
\* clusters' widths and one synthetic cell, and a cluster is reversed exactly
\* when the counter at its visit is in [lo, hi); "ab\ncd" with (2,4) reverses
\* exactly cell 2, the synthetic cell of line 1, and cell 3, 'c'.
C10Thm ==
    styled # <<>> =>
        LET out == styled[1]
            n == Normalize(selection)
        IN  /\ Len(out) = Len(content)
            /\ \A i \in 1..Len(content) :
                  LET fl == RunFlags(out[i]) IN
                  /\ Len(fl) = Len(content[i]) + 1
                  /\ \A j \in 1..Len(fl) :
                        fl[j] <=> (n.lo <= CounterAt(content, i, j)
                                   /\ CounterAt(content, i, j) < n.hi)
            /\ (content = TextAbCd /\ selection = <<2, 4>>) =>
                  out = << <<[text |-> <<Letter("a"), Letter("b")>>, reversed |-> FALSE],
                             [text |-> <<Space>>, reversed |-> TRUE]>>,
                           <<[text |-> <<Letter("c")>>, reversed |-> TRUE],
                             [text |-> <<Letter("d"), Space>>, reversed |-> FALSE]>> >>

\* "ab\ncd" was rendered with the selection (2,4): the highlight runs from
\* the end of the first line into the second.
C10Wit ==
    /\ styled # <<>>
    /\ content = TextAbCd
    /\ selection = <<2, 4>>
    /\ styled[1][1][2].reversed
    /\ styled[1][2][1].reversed

\* The clusters of a StyledLine, its runs concatenated in order.
RECURSIVE RunText(_)
RunText(runs) == IF runs = <<>> THEN <<>> ELSE Head(runs).text \o RunText(Tail(runs))

\* The sum of the cell widths of the runs of a StyledLine.
RECURSIVE RunsWidth(_)
RunsWidth(runs) ==
    IF runs = <<>> THEN 0 ELSE CellWidth(Head(runs).text) + RunsWidth(Tail(runs))

\* C11: the runs of every StyledLine, concatenated, are the line's clusters
\* followed by one synthetic space, and their cell widths sum to the line's
\* display width plus 1.
C11Thm ==
    styled # <<>> =>
        /\ Len(styled[1]) = Len(content)
        /\ \A i \in 1..Len(content) :
              /\ RunText(styled[1][i]) = content[i] \o <<Space>>
              /\ RunsWidth(styled[1][i]) = CellWidth(content[i]) + 1

\* A line of a letter and an emoji was rendered with the emoji selected: its
\* three runs are four cells wide.
C11Wit ==
    /\ styled # <<>>
    /\ content = <<(<<Letter("a"), Cluster("<crab>", 2)>>)>>
    /\ selection = <<1, 3>>
    /\ Len(styled[1][1]) = 3
    /\ RunsWidth(styled[1][1]) = 4

\* C12: every StyledLine has a run, an empty line exactly one (the synthetic
\* cell), no run is empty, consecutive runs differ in their reversed flag, and
\* "abc" with (1,1) gives "a" normal, "b" reversed, "c " normal.
C12Thm ==
    styled # <<>> =>
        /\ \A i \in 1..Len(styled[1]) :
              LET runs == styled[1][i] IN
              /\ Len(runs) >= 1
              /\ content[i] = <<>> => (Len(runs) = 1 /\ runs[1].text = <<Space>>)
              /\ \A r \in 1..Len(runs) : runs[r].text # <<>>
              /\ \A r \in 1..(Len(runs) - 1) : runs[r].reversed # runs[r + 1].reversed
        /\ (content = TextAbc /\ selection = <<1, 1>>) =>
              styled[1] =
                  << <<[text |-> <<Letter("a")>>, reversed |-> FALSE],
                       [text |-> <<Letter("b")>>, reversed |-> TRUE],
                       [text |-> <<Letter("c"), Space>>, reversed |-> FALSE]>> >>

\* "abc" was rendered with the caret (1,1) and has three runs.
C12Wit ==
    /\ styled # <<>>
    /\ content = TextAbc
    /\ selection = <<1, 1>>
    /\ Len(styled[1][1]) = 3
    /\ styled[1][1][2].reversed

C14Thm ==
    (styled # <<>> /\ Normalize(selection).lo > TextSpan(content)) =>
        /\ Len(styled[1]) = Len(content)
        /\ \A i \in 1..Len(styled[1]) :
              /\ styled[1][i] # <<>>
              /\ ReversedRuns(styled[1][i]) = {}

\* A text of two lines was rendered with the caret past its end.
C14Wit ==
    /\ styled # <<>>
    /\ Len(content) = 2
    /\ selection = <<TextSpan(content) + 1, TextSpan(content) + 1>>
    /\ \A i \in 1..2 : ReversedRuns(styled[1][i]) = {}

(***************************************************************************)
(* Frames, redraw requests and the initialisation of the backend.         *)
(***************************************************************************)
\* A redraw request or a resize handled by window_event.
IsFrameEvent(e) == e.type \in {"RedrawRequested", "Resized"}

\* C15: handling a redraw request, and likewise a resize, leaves the text
\* buffer (which holds the selection) and the three modifier flags unchanged;
\* drawing only reads the buffer.
C15Thm ==
    [][(IsFrameEvent(ev') /\ WindowEvent(ev')) =>
          /\ ed' = ed
          /\ flagOf' = flagOf
          /\ emitted' = <<>>
          /\ <<content', selection'>> = <<content, selection>>]_vars

\* A frame was drawn of a buffer that holds commands, with Ctrl held.
C15Wit ==
    /\ ev = RedrawRequested
    /\ handled
    /\ ed.inputs > 0
    /\ ctrl_down
    /\ backend[1].frame = <<ed.inputs>>

\* C16: a key press that applies a command to the buffer requests a redraw
\* in the same call of window_event, so that a redraw is pending when the call
\* returns, and the frame drawn for a redraw request is that of the buffer
\* with the command applied.
C16Thm ==
    /\ [](emitted # <<>> => (redraw /\ ~panicked))
    /\ [][(WindowEvent(ev') /\ emitted' # <<>>) =>
             (redraw' /\ ed'.inputs = ed.inputs + 1)]_vars
    /\ [][(ev' = RedrawRequested /\ WindowEvent(ev') /\ backend # <<>>) =>
             backend'[1].frame = <<ed.inputs>>]_vars

\* A command has just been applied: the redraw is pending and the frame on the
\* screen is still the one from before the command.
C16Wit ==
    /\ Len(emitted) = 1
    /\ IsPress(ev)
    /\ redraw
    /\ backend[1].frame = <<ed.inputs - 1>>

\* C17: while the backend is None window_event drops every event: the flags
\* and the buffer stay as they are, no command is emitted and no redraw is
\* requested; so a modifier whose press came before the backend was installed,
\* and that had no event since, is not held.
C17Thm ==
    /\ [][(WindowEvent(ev') /\ backend = <<>>) =>
             /\ flagOf' = flagOf
             /\ ed' = ed
             /\ emitted' = <<>>
             /\ redraw' => redraw
             /\ backend' = <<>>]_vars
    /\ [](\A m \in ModifierNames :
             (lastEv[m] = "Pressed" /\ lastHandled[m] = "None") => ~flagOf[m])

\* Ctrl went down before the backend was installed; a key press handled after
\* the installation is applied without Ctrl.
C17Wit ==
    /\ lastEv["Control"] = "Pressed"
    /\ lastHandled["Control"] = "None"
    /\ handled
    /\ ev = XPress
    /\ emitted = <<MkInput(KeyChar("x"), FALSE, alt_down, shift_down)>>

\* C18: an installed backend implies a window, the backend never returns to
\* None, the handler never panics (neither on the window unwrap nor on the
\* borrow of the backend cell), and the future never holds a borrow of the
\* backend cell while events can be delivered.
C18Thm ==
    /\ [](backend # <<>> => window # <<>>)
    /\ [](panicked => task = "panicked")
    /\ [](~borrowed)
    /\ [][backend # <<>> => backend' # <<>>]_vars

\* Events came while the future was suspended and after it finished, and the
\* last call requested its redraw.
C18Wit ==
    /\ backend # <<>>
    /\ task = "done"
    /\ lastEv["Shift"] = "Pressed"
    /\ lastHandled["Shift"] = "None"
    /\ ev.type = "Resized"
    /\ handled
    /\ redraw
    /\ ~panicked

\* A key event whose arm returns early: a modifier or an unrecognised key.
IsReturningKeyEvent(e) ==
    IsKeyEvent(e) /\ e.key \in ModifierKeys \cup UnrecognisedKeys

====
